---- MODULE Spec2Model ----
(***************************************************************************)
(* Model of socks5man/database.py: the socks5s table and the operations of *)
(* class Database on it.  The table is a set of rows; every row carries    *)
(* the columns of class Socks5.  Time is the value datetime.now() returns: *)
(* a counter that never goes back and may be read twice with the same      *)
(* value.                                                                  *)
(***************************************************************************)
EXTENDS Integers, Sequences, FiniteSets, TLC

VARIABLES rows, clock, ncalls, call, rot, assigned, pc, sel, out

vars == <<rows, clock, ncalls, call, rot, assigned, pc, sel, out>>

(* ------------------------------ bounds -------------------------------- *)

\* Largest rowid the model hands out or accepts.
MaxId == 2

\* Largest value of the clock.
MaxTime == 1

\* Largest limit argument of find_socks5.
MaxLimit == 2

\* Number of calls made on the Database object in one behaviour.
MaxCalls == 4

\* Longest list handed to bulk_add_socks5.
MaxBulk == 2
MaxRot == 3
MaxRotUse == 2

(* --------------------------- column values ---------------------------- *)

\* Python None / SQL NULL in a numeric or datetime column.
NULL == -1

\* Python None / SQL NULL in a string column.
NullStr == "None"

Ids == 1..MaxId

Times == 0..MaxTime

\* Values the health checker stores with set_approx_bandwidth.
BandwidthValues == {1}

\* Values the health checker stores with set_connect_time.
ConnectTimeValues == {2}

(* --------------------------- class Socks5 ----------------------------- *)

\* The row whose city is not assigned.
Socks5_nocity(id, a) ==
    [id |-> id, host |-> a.host, port |-> a.port, country |-> a.country,
     country_code |-> a.country_code, city |-> NullStr,
     username |-> a.username, password |-> a.password,
     last_use |-> NULL, last_check |-> NULL, operational |-> a.operational,
     bandwidth |-> NULL, connect_time |-> NULL,
     description |-> a.description]

\* Socks5.__init__ followed by the INSERT of session.add / table.insert():
\* the columns a caller does not give keep their defaults (operational
\* False, every nullable column NULL).  The column added_on, which is set
\* at the insert and which no operation reads or writes afterwards, is not
\* carried.
Socks5(id, a) ==
    [id |-> id, host |-> a.host, port |-> a.port, country |-> a.country,
     country_code |-> a.country_code, city |-> a.city,
     username |-> a.username, password |-> a.password,
     last_use |-> NULL, last_check |-> NULL, operational |-> a.operational,
     bandwidth |-> NULL, connect_time |-> NULL,
     description |-> a.description]

\* Python truthiness of a string argument, as tested by "if country:".
TruthyStr(v) == v # NullStr /\ v # ""

\* Python truthiness of a numeric argument, as tested by "if min_mbps_down:".
TruthyNum(v) == v # NULL /\ v # 0

RowIds(t) == {r.id : r \in t}

\* The number of rows plus one as the next id.
NextRowId_count(t) == Cardinality(t) + 1

\* The smallest id not in use as the next id.
NextRowId_gap(t) == CHOOSE i \in 1..(Cardinality(t) + 1) : i \notin {r.id : r \in t}

\* The rowid SQLite gives a row inserted without an id: one more than the
\* largest rowid present (the column is INTEGER PRIMARY KEY, declared
\* without AUTOINCREMENT), 1 in an empty table.
NextRowId(t) ==
    IF t = {} THEN 1
    ELSE (CHOOSE m \in RowIds(t) : \A i \in RowIds(t) : i <= m) + 1

(* ------------------------------ inputs -------------------------------- *)

NoFilter ==
    [country |-> NullStr, country_code |-> NullStr, city |-> NullStr,
     min_mbps_down |-> NULL, max_connect_time |-> NULL]

\* Argument tuples of add_socks5.
AddArgs ==
    { [host |-> "1.2.3.4", port |-> 1080, country |-> "Germany",
       country_code |-> "DE", city |-> "Berlin", username |-> NullStr,
       password |-> NullStr, description |-> NullStr, operational |-> o]
        : o \in BOOLEAN }
    \cup
    { [host |-> "5.6.7.8", port |-> 1080, country |-> "Netherlands",
       country_code |-> "NL", city |-> NullStr, username |-> "u",
       password |-> "p", description |-> "d", operational |-> o]
        : o \in BOOLEAN }

\* Filter arguments of find_socks5.
FilterArgs ==
    { NoFilter }
    \cup { [NoFilter EXCEPT !.country = v] : v \in {"", "Germany"} }
    \cup { [NoFilter EXCEPT !.country_code = v] : v \in {"", "DE"} }
    \cup { [NoFilter EXCEPT !.city = v] : v \in {"", "Berlin"} }
    \cup { [NoFilter EXCEPT !.min_mbps_down = v] : v \in {0, 1, 2} }
    \cup { [NoFilter EXCEPT !.max_connect_time = v] : v \in {0, 1, 2} }
    \cup { [country |-> "Germany", country_code |-> "DE", city |-> "Berlin",
            min_mbps_down |-> 1, max_connect_time |-> 2],
           [country |-> "Netherlands", country_code |-> "DE",
            city |-> NullStr, min_mbps_down |-> NULL,
            max_connect_time |-> NULL] }

\* Filter arguments of list_socks5, which takes no bandwidth or connect
\* time.
ListFilterArgs ==
    {f \in FilterArgs :
        f.min_mbps_down = NULL /\ f.max_connect_time = NULL}

(* --------------------------- Database state --------------------------- *)

NoCall ==
    [op |-> "none", id |-> NULL, filt |-> NoFilter,
     update_usage |-> FALSE, limit |-> 0, batch |-> <<>>, args |-> <<>>,
     ok |-> TRUE, error |-> FALSE, result |-> <<>>]

NoRot == [n |-> 0, since |-> NULL, late |-> TRUE, ids |-> <<>>]

\* The record of the call that just returned: its name, its arguments (args
\* holds the column values of add_socks5 and the value of a setter), what it
\* returned, and whether an SQLAlchemyError was raised and caught in it.
Called(name, id, f, u, l, ok, res) ==
    [op |-> name, id |-> id, filt |-> f, update_usage |-> u, limit |-> l,
     batch |-> <<>>, args |-> <<>>, ok |-> ok, error |-> FALSE,
     result |-> res]

\* One more call is made.
Enter ==
    /\ ncalls < MaxCalls
    /\ ncalls' = ncalls + 1

Init ==
    /\ rows = {}
    /\ clock = 0
    /\ ncalls = 0
    /\ call = NoCall
    /\ rot = NoRot
    /\ assigned = {}
    /\ pc = [p \in {1, 2} |-> "idle"]
    /\ sel = [p \in {1, 2} |-> <<>>]
    /\ out = [p \in {1, 2} |-> <<>>]

\* Time passes between two calls.
Tick ==
    /\ clock < MaxTime
    /\ clock' = clock + 1
    /\ UNCHANGED <<rows, ncalls, call, rot, assigned, pc, sel, out>>

(* ----------------------------- add_socks5 ----------------------------- *)

add_socks5(a) ==
    /\ Enter
    /\ NextRowId(rows) <= MaxId
    /\ rows' = rows \cup {Socks5(NextRowId(rows), a)}
    /\ call' = [Called("add", NextRowId(rows), NoFilter, FALSE, 0, TRUE, <<>>)
                   EXCEPT !.args = <<a>>]
    /\ rot' = NoRot
    /\ assigned' = assigned \cup RowIds(rows')
    /\ UNCHANGED <<clock, pc, sel, out>>

(* ---------------------------- remove_socks5 --------------------------- *)

\* The delete without its filter_by.
DeleteById_all(t, id) == {}

\* session.query(Socks5).filter_by(id=id).delete()
DeleteById(t, id) == {r \in t : r.id # id}

remove_socks5(id) ==
    /\ Enter
    /\ rows' = DeleteById(rows, id)
    /\ call' = Called("remove", id, NoFilter, FALSE, 0, TRUE, <<>>)
    /\ rot' = NoRot
    /\ UNCHANGED <<clock, assigned, pc, sel, out>>

(* ----------------------------- list_socks5 ---------------------------- *)

\* The filter_by chain of list_socks5: a filter is applied when its
\* argument is truthy.
ListMatches(r, f) ==
    /\ (TruthyStr(f.country) => r.country = f.country)
    /\ (TruthyStr(f.country_code) => r.country_code = f.country_code)
    /\ (TruthyStr(f.city) => r.city = f.city)

Min(a, b) == IF a <= b THEN a ELSE b

\* The sequences that hold every element of S once.
Perms(S) ==
    {s \in [1..Cardinality(S) -> S] :
        \A i, j \in 1..Cardinality(S) : i # j => s[i] # s[j]}

\* .limit(limit).all() without an ORDER BY: the first rows in whatever
\* order the storage engine delivers them.
ListResults(t, f, limit) ==
    {SubSeq(s, 1, Min(limit, Len(s))) :
        s \in Perms({r \in t : ListMatches(r, f)})}

list_socks5(f, limit) ==
    /\ Enter
    /\ \E res \in ListResults(rows, f, limit) :
          call' = Called("list", NULL, f, FALSE, limit, TRUE, res)
    /\ rot' = NoRot
    /\ UNCHANGED <<rows, clock, assigned, pc, sel, out>>

(* ----------------------------- view_socks5 ---------------------------- *)

\* session.query(Socks5).get(socks5_id): the row, or None.
Get(t, id) ==
    IF id \in RowIds(t) THEN <<CHOOSE r \in t : r.id = id>> ELSE <<>>

view_socks5(id) ==
    /\ Enter
    /\ call' = Called("view", id, NoFilter, FALSE, 0, TRUE, Get(rows, id))
    /\ rot' = NoRot
    /\ UNCHANGED <<rows, clock, assigned, pc, sel, out>>

(* ----------------------------- find_socks5 ---------------------------- *)

\* The health filter left out.
IsOperational_any(r) == r.operational \in BOOLEAN

\* filter_by(operational=True)
IsOperational(r) == r.operational = TRUE

\* socks5.filter(Socks5.bandwidth >= min_mbps_down): a NULL bandwidth
\* compares to NULL, which is not true.
BandwidthAtLeast(r, v) == r.bandwidth # NULL /\ r.bandwidth >= v

\* The comparison in which no connect time counts as the shortest.
ConnectTimeAtMost_null(r, v) == r.connect_time = NULL \/ r.connect_time <= v

\* socks5.filter(Socks5.connect_time <= max_connect_time)
ConnectTimeAtMost(r, v) == r.connect_time # NULL /\ r.connect_time <= v

\* The filter chain of find_socks5.
FindMatches(r, f) ==
    /\ IsOperational(r)
    /\ (TruthyStr(f.country) => r.country = f.country)
    /\ (TruthyStr(f.country_code) => r.country_code = f.country_code)
    /\ (TruthyStr(f.city) => r.city = f.city)
    /\ (TruthyNum(f.min_mbps_down) => BandwidthAtLeast(r, f.min_mbps_down))
    /\ (TruthyNum(f.max_connect_time) =>
            ConnectTimeAtMost(r, f.max_connect_time))

Candidates(t, f) == {r \in t : FindMatches(r, f)}

\* The most recently used row first.
SortsBefore_desc(a, b) ==
    \/ a.last_use > b.last_use
    \/ a.last_use = b.last_use /\ a.last_check > b.last_check

\* order_by(last_use.asc(), last_check.desc()): a sorts strictly before b.
\* SQLite takes NULL as smaller than every value, so a NULL last_use comes
\* first and a NULL last_check comes last.
SortsBefore(a, b) ==
    \/ a.last_use < b.last_use
    \/ a.last_use = b.last_use /\ a.last_check > b.last_check

\* The orders the ORDER BY allows: rows with equal keys in any order.
Ordered(S) ==
    {s \in Perms(S) :
        \A i, j \in 1..Len(s) : i < j => ~SortsBefore(s[j], s[i])}

\* One row more than the limit.
Selections_more(t, f, limit) ==
    {SubSeq(s, 1, Min(limit + 1, Len(s))) : s \in Ordered(Candidates(t, f))}

\* .order_by(...).limit(limit).all()
Selections(t, f, limit) ==
    {SubSeq(s, 1, Min(limit, Len(s))) : s \in Ordered(Candidates(t, f))}

\* The values datetime.now() returns in the loop over the n results.
StampTimes(n) ==
    {ts \in [1..n -> clock..MaxTime] :
        \A i, j \in 1..n : i < j => ts[i] <= ts[j]}

\* The loop that clears last_use.
Stamped_clear(res, ts) ==
    [i \in 1..Len(res) |-> [res[i] EXCEPT !.last_use = NULL]]

\* s.last_use = datetime.now() for every s of result.
Stamped(res, ts) ==
    [i \in 1..Len(res) |-> [res[i] EXCEPT !.last_use = ts[i]]]

Range(s) == {s[i] : i \in 1..Len(s)}

\* The commit that stores nothing.
Commit_none(t, res) == t

\* The commit that stamps every operational row with the time of the first
\* result.
Commit_all(t, res) ==
    {IF res # <<>> /\ r.operational = TRUE
     THEN [r EXCEPT !.last_use = res[1].last_use] ELSE r : r \in t}

\* session.commit(): one UPDATE of last_use per result, by primary key, in
\* one transaction.
Commit(t, res) ==
    {IF \E i \in 1..Len(res) : res[i].id = r.id
     THEN [r EXCEPT !.last_use =
              res[CHOOSE i \in 1..Len(res) : res[i].id = r.id].last_use]
     ELSE r : r \in t}

\* The results as they were loaded by the query, not reloaded.
Refreshed_stale(t, res) == res

\* session.refresh(s): every result reloaded from the table.
Refreshed(t, res) ==
    [i \in 1..Len(res) |-> CHOOSE r \in t : r.id = res[i].id]

\* The run of consecutive find_socks5(limit=1, update_usage=True) calls
\* without filters, started where at least two operational rows all have
\* the same last_use and last_check.
Operational(t) == {r \in t : IsOperational(r)}

EqualKeys(t) ==
    \A a, b \in Operational(t) :
        a.last_use = b.last_use /\ a.last_check = b.last_check

RotNext(f, update_usage, limit, res, ts) ==
    IF ~(f = NoFilter /\ update_usage /\ limit = 1) THEN NoRot
    ELSE IF rot.n > 0 /\ Len(rot.ids) < rot.n
         THEN [rot EXCEPT !.ids = Append(@, res[1].id),
                          !.late = @ /\ ts[1] > rot.since]
    ELSE IF Cardinality(Operational(rows)) >= 2 /\ EqualKeys(rows)
         THEN [n |-> Cardinality(Operational(rows)),
               since |-> res[1].last_use,
               late |-> ts[1] > res[1].last_use,
               ids |-> <<res[1].id>>]
    ELSE NoRot

\* The update_usage argument left out of the test.
ShouldStamp_always(res, update_usage) == res # <<>>

\* if result and update_usage:
ShouldStamp(res, update_usage) == res # <<>> /\ update_usage

find_socks5(f, update_usage, limit) ==
    /\ Enter
    /\ \E res \in Selections(rows, f, limit) :
        IF ShouldStamp(res, update_usage)
        THEN \E ts \in StampTimes(Len(res)) :
                /\ rows' = Commit(rows, Stamped(res, ts))
                /\ clock' = ts[Len(res)]
                /\ call' = Called("find", NULL, f, update_usage, limit, TRUE,
                                  Refreshed(rows', res))
                /\ rot' = RotNext(f, update_usage, limit, res, ts)
                /\ UNCHANGED <<assigned, pc, sel, out>>
        ELSE /\ call' = Called("find", NULL, f, update_usage, limit, TRUE,
                               res)
             /\ rot' = NoRot
             /\ UNCHANGED <<rows, clock, assigned, pc, sel, out>>

(* --------------------------- bulk_add_socks5 -------------------------- *)

\* The dictionaries handed to bulk_add_socks5: the columns of an exported
\* row, with the id of the export or none.  The last_use of an export is
\* whatever the exporting side stored: any time, also one the clock of this
\* side has not reached.
ExportedArgs == CHOOSE a \in AddArgs : a.country = "Germany" /\ a.operational

BulkDicts ==
    { [id |-> i, last_use |-> u, args |-> ExportedArgs]
        : i \in {NULL} \cup Ids, u \in {NULL} \cup Times }
    \cup
    { [id |-> NULL, last_use |-> NULL,
       args |-> [ExportedArgs EXCEPT !.host = NullStr]] }

BulkArgs == UNION { [1..n -> BulkDicts] : n \in 1..MaxBulk }

\* A value is there for every column declared nullable=False that the
\* dictionaries may leave out.
HasRequired(a) == a.host # NullStr

\* Socks5.__table__.insert() executed with the list: the rows are inserted
\* one after the other; a row whose id is already present violates the
\* primary key, a row without host the NOT NULL constraint, and the
\* statement fails.
RECURSIVE BulkInsert(_, _)
BulkInsert(t, ds) ==
    IF ds = <<>> THEN [ok |-> TRUE, rows |-> t]
    ELSE LET d == Head(ds)
             id == IF d.id = NULL THEN NextRowId(t) ELSE d.id
         IN  IF id \in RowIds(t) \/ ~HasRequired(d.args)
             THEN [ok |-> FALSE, rows |-> t]
             ELSE BulkInsert(
                      t \cup {[Socks5(id, d.args) EXCEPT
                                  !.last_use = d.last_use]},
                      Tail(ds))

\* The rows a failed statement had inserted stay.
AfterExecute_partial(t, r) == r.rows

\* The table after engine.execute(): the statement runs in a transaction
\* that is rolled back when it fails.
AfterExecute(t, r) == IF r.ok THEN r.rows ELSE t

bulk_add_socks5(ds) ==
    LET r == BulkInsert(rows, ds)
    IN  /\ Enter
        /\ r.ok => RowIds(r.rows) \subseteq Ids
        /\ rows' = AfterExecute(rows, r)
        /\ call' = [Called("bulk_add", NULL, NoFilter, FALSE, 0, r.ok, <<>>)
                       EXCEPT !.batch = ds]
        /\ rot' = NoRot
        /\ assigned' = assigned \cup RowIds(rows')
        /\ UNCHANGED <<clock, pc, sel, out>>

(* ------------------------------ setters ------------------------------- *)

\* The flag set without the time of the check.
SetOperational_nostamp(t, id, v, now) ==
    {IF r.id = id THEN [r EXCEPT !.operational = v] ELSE r : r \in t}

\* The flag and the time set on every row.
SetOperational_all(t, id, v, now) ==
    {[r EXCEPT !.operational = v, !.last_check = now] : r \in t}

\* socks5.operational = operational; socks5.last_check = datetime.now()
SetOperational(t, id, v, now) ==
    {IF r.id = id THEN [r EXCEPT !.operational = v, !.last_check = now]
     ELSE r : r \in t}

set_operational(id, v) ==
    /\ Enter
    /\ rows' = SetOperational(rows, id, v, clock)
    /\ call' = [Called("set_operational", id, NoFilter, FALSE, 0, TRUE, <<>>)
                   EXCEPT !.args = <<v>>]
    /\ rot' = NoRot
    /\ UNCHANGED <<clock, assigned, pc, sel, out>>

\* The update that also marks the row as checked.
SetConnectTime_checked(t, id, v) ==
    {IF r.id = id THEN [r EXCEPT !.connect_time = v, !.last_check = 0]
     ELSE r : r \in t}

\* filter_by(id=socks5_id).update({"connect_time": connect_time})
SetConnectTime(t, id, v) ==
    {IF r.id = id THEN [r EXCEPT !.connect_time = v] ELSE r : r \in t}

set_connect_time(id, v) ==
    /\ Enter
    /\ rows' = SetConnectTime(rows, id, v)
    /\ call' = [Called("set_connect_time", id, NoFilter, FALSE, 0, TRUE, <<>>)
                   EXCEPT !.args = <<v>>]
    /\ rot' = NoRot
    /\ UNCHANGED <<clock, assigned, pc, sel, out>>

\* filter_by(id=socks5_id).update({"bandwidth": bandwidth})
SetBandwidth(t, id, v) ==
    {IF r.id = id THEN [r EXCEPT !.bandwidth = v] ELSE r : r \in t}

set_approx_bandwidth(id, v) ==
    /\ Enter
    /\ rows' = SetBandwidth(rows, id, v)
    /\ call' = [Called("set_approx_bandwidth", id, NoFilter, FALSE, 0,
                       TRUE, <<>>)
                   EXCEPT !.args = <<v>>]
    /\ rot' = NoRot
    /\ UNCHANGED <<clock, assigned, pc, sel, out>>

Next ==
    \/ Tick
    \/ \E a \in AddArgs : add_socks5(a)
    \/ \E id \in Ids : remove_socks5(id)
    \/ \E f \in ListFilterArgs, l \in 0..MaxLimit : list_socks5(f, l)
    \/ \E id \in Ids : view_socks5(id)
    \/ \E f \in FilterArgs, u \in BOOLEAN, l \in 0..MaxLimit :
          find_socks5(f, u, l)
    \/ \E ds \in BulkArgs : bulk_add_socks5(ds)
    \/ \E id \in Ids, v \in BOOLEAN : set_operational(id, v)
    \/ \E id \in Ids, v \in ConnectTimeValues : set_connect_time(id, v)
    \/ \E id \in Ids, v \in BandwidthValues : set_approx_bandwidth(id, v)

Spec == Init /\ [][Next]_vars

(* ------------------- find_socks5 called concurrently ------------------ *)

\* Two callers, each with a session of its own, run
\* find_socks5(update_usage=True, limit=1) without filters.  A caller's
\* statements reach the database one at a time: the SELECT of .all(), the
\* UPDATE and COMMIT of session.commit(), the SELECT of session.refresh().
Procs == {1, 2}

\* The tables the callers find: two rows, never handed out before.
ConcStores ==
    { {[Socks5(1, a) EXCEPT !.last_check = c],
       [Socks5(2, b) EXCEPT !.last_check = d]}
        : a \in AddArgs, b \in AddArgs,
          c \in {NULL, 0}, d \in {NULL, 0} }

InitConc ==
    /\ rows \in ConcStores
    /\ clock = 0
    /\ ncalls = 0
    /\ call = NoCall
    /\ rot = NoRot
    /\ assigned = {1, 2}
    /\ pc = [p \in Procs |-> "query"]
    /\ sel = [p \in Procs |-> <<>>]
    /\ out = [p \in Procs |-> <<>>]

\* result = socks5.order_by(...).limit(1).all(), then the loop that sets
\* last_use on the objects of the session.
FindQuery(p) ==
    /\ pc[p] = "query"
    /\ \E res \in Selections(rows, NoFilter, 1) :
          /\ sel' = [sel EXCEPT ![p] = Stamped(res, [i \in 1..Len(res) |-> clock])]
          /\ pc' = [pc EXCEPT ![p] = IF res = <<>> THEN "done" ELSE "commit"]
    /\ UNCHANGED <<rows, clock, ncalls, call, rot, assigned, out>>

\* session.commit()
FindCommit(p) ==
    /\ pc[p] = "commit"
    /\ rows' = Commit(rows, sel[p])
    /\ pc' = [pc EXCEPT ![p] = "refresh"]
    /\ UNCHANGED <<clock, ncalls, call, rot, assigned, sel, out>>

\* session.refresh(s), session.expunge(s) and return result
FindReturn(p) ==
    /\ pc[p] = "refresh"
    /\ out' = [out EXCEPT ![p] = Refreshed(rows, sel[p])]
    /\ pc' = [pc EXCEPT ![p] = "done"]
    /\ UNCHANGED <<rows, clock, ncalls, call, rot, assigned, sel>>

NextConc ==
    \/ Tick
    \/ \E p \in Procs : FindQuery(p)
    \/ \E p \in Procs : FindCommit(p)
    \/ \E p \in Procs : FindReturn(p)

SpecConc == InitConc /\ [][NextConc]_vars

(* --------------------- reads on a failing database -------------------- *)

\* A statement sent to the database may raise an SQLAlchemyError (the file
\* is locked, the disk is full, the connection is gone).  The statements of
\* find_socks5 that reach the database: the SELECT of .all(), the UPDATE
\* and COMMIT of session.commit(), the SELECT of session.refresh().
FailPoints == {"query", "commit", "refresh"}

\* What the except branch leaves in "result" when the statement at point
\* "at" raised: the empty list it was initialised with when the query
\* raised, the objects of the query otherwise.
ResultAfterError(res, at) == IF at = "query" THEN <<>> ELSE res

\* find_socks5 in which the statement at point "at" raises.  The except
\* branch logs; the function ends in "return result".  A commit that raised
\* stored nothing; a refresh raises after the commit stored the stamps.
find_socks5_error(f, update_usage, limit, at) ==
    /\ Enter
    /\ \E res \in Selections(rows, f, limit) :
          /\ at # "query" => ShouldStamp(res, update_usage)
          /\ call' = [Called("find", NULL, f, update_usage, limit, TRUE,
                              ResultAfterError(res, at))
                         EXCEPT !.error = TRUE]
          /\ IF at = "refresh"
             THEN \E ts \in StampTimes(Len(res)) :
                     /\ rows' = Commit(rows, Stamped(res, ts))
                     /\ clock' = ts[Len(res)]
             ELSE UNCHANGED <<rows, clock>>
    /\ rot' = NoRot
    /\ UNCHANGED <<assigned, pc, sel, out>>

\* list_socks5 in which .all() raises: the except branch returns [].
list_socks5_error(f, limit) ==
    /\ Enter
    /\ call' = [Called("list", NULL, f, FALSE, limit, TRUE, <<>>)
                   EXCEPT !.error = TRUE]
    /\ rot' = NoRot
    /\ UNCHANGED <<rows, clock, assigned, pc, sel, out>>

\* view_socks5 in which .get() raises: socks5 is still None.
view_socks5_error(id) ==
    /\ Enter
    /\ call' = [Called("view", id, NoFilter, FALSE, 0, TRUE, <<>>)
                   EXCEPT !.error = TRUE]
    /\ rot' = NoRot
    /\ UNCHANGED <<rows, clock, assigned, pc, sel, out>>

\* The calls that fill the table, and the three reads with and without a
\* failure of the database.
NextError ==
    \/ Tick
    \/ \E a \in AddArgs : add_socks5(a)
    \/ \E id \in Ids, v \in BOOLEAN : set_operational(id, v)
    \/ \E f \in ListFilterArgs, l \in 0..MaxLimit : list_socks5(f, l)
    \/ \E id \in Ids : view_socks5(id)
    \/ \E f \in FilterArgs, u \in BOOLEAN, l \in 0..MaxLimit :
          find_socks5(f, u, l)
    \/ \E f \in FilterArgs, u \in BOOLEAN, l \in 0..MaxLimit,
          at \in FailPoints : find_socks5_error(f, u, l, at)
    \/ \E f \in ListFilterArgs, l \in 0..MaxLimit : list_socks5_error(f, l)
    \/ \E id \in Ids : view_socks5_error(id)

SpecError == Init /\ [][NextError]_vars

(* ------------------ find_socks5 called again and again --------------- *)

\* A caller keeps calling find_socks5(limit=1, update_usage=True) without
\* filters on a table no other call changes; the clock has advanced each
\* time it calls.  The table holds MaxRot rows, operational or not; an
\* operational row was never handed out or was handed out at a time up to
\* MaxRotUse, where the first call is made at time 1: before the first
\* call, at its time, or after it.
RotRows(i) ==
    { [Socks5(i, ExportedArgs) EXCEPT !.last_use = u, !.last_check = c]
        : u \in {NULL} \cup 0..MaxRotUse, c \in {NULL, 0} }
    \cup
    { [Socks5(i, [ExportedArgs EXCEPT !.operational = FALSE])
          EXCEPT !.last_check = c] : c \in {NULL, 0} }

RotStores ==
    { {f[i] : i \in 1..MaxRot} :
        f \in {g \in [1..MaxRot -> UNION {RotRows(i) : i \in 1..MaxRot}] :
                  \A i \in 1..MaxRot : g[i].id = i} }

InitRotation ==
    /\ rows \in RotStores
    /\ clock = 0
    /\ ncalls = 0
    /\ call = NoCall
    /\ rot = [n |-> Cardinality(Operational(rows)), since |-> NULL,
              late |-> \A r \in Operational(rows) : r.last_use <= 0,
              ids |-> <<>>]
    /\ assigned = RowIds(rows)
    /\ pc = [p \in {1, 2} |-> "idle"]
    /\ sel = [p \in {1, 2} |-> <<>>]
    /\ out = [p \in {1, 2} |-> <<>>]

\* The times of the table and the clock are kept relative to the earliest
\* of them: find_socks5 compares times and never looks at their distance.
Origin(t, now) ==
    LET S == {now} \cup {r.last_use : r \in {x \in t : x.last_use # NULL}}
    IN  CHOOSE m \in S : \A x \in S : m <= x

Rebase(t, d) ==
    {IF r.last_use # NULL THEN [r EXCEPT !.last_use = @ - d] ELSE r : r \in t}

\* The last n elements of s.
LastN(s, n) == IF Len(s) <= n THEN s ELSE SubSeq(s, Len(s) - n + 1, Len(s))

\* find_socks5(limit=1, update_usage=True) without filters, called when the
\* clock has advanced by one since the call before.
find_socks5_again ==
    LET now == clock + 1
    IN  \E res \in Selections(rows, NoFilter, 1) :
          LET t == IF ShouldStamp(res, TRUE)
                   THEN Commit(rows, Stamped(res, [i \in 1..Len(res) |-> now]))
                   ELSE rows
              d == Origin(t, now)
          IN  /\ rows' = Rebase(t, d)
              /\ clock' = now - d
              /\ call' = Called("find", NULL, NoFilter, TRUE, 1, TRUE,
                                IF res = <<>> THEN <<>>
                                ELSE Refreshed(rows', res))
              /\ rot' = [rot EXCEPT
                            !.ids = IF res = <<>> THEN @
                                    ELSE LastN(Append(@, res[1].id), rot.n + 1)]
              /\ UNCHANGED <<ncalls, assigned, pc, sel, out>>

NextRotation == find_socks5_again

\* The caller never stops calling.
SpecRotation ==
    InitRotation /\ [][NextRotation]_vars /\ WF_vars(NextRotation)

(* ============================== claims ================================ *)

\* A step that is a call of the Database object.
IsCall == ncalls' # ncalls

Returned == Range(call.result)

\* C1: every record find_socks5 returns is operational, whatever the
\* filters, the limit and update_usage.
C1_HealthGate ==
    call.op = "find" => \A r \in Returned : r.operational = TRUE

\* A find without filters returned fewer rows than its limit allows while
\* a row that is not operational sits in the table.
C1_Witness ==
    /\ call.op = "find"
    /\ call.filt = NoFilter
    /\ Len(call.result) = 1
    /\ call.limit = 2
    /\ \E r \in rows : ~r.operational

Distinct(s) == \A i, j \in 1..Len(s) : i # j => s[i] # s[j]

\* C2 as stated: N >= 2 operational records with equal last_use and equal
\* last_check; N consecutive find_socks5(limit=1, update_usage=True) calls
\* without filters return N distinct ids.
C2_Rotation_Original == rot.n >= 2 => Distinct(rot.ids)

\* C2, amended: the same, when the common last_use is NULL or earlier than
\* the time of each of the N calls.
C2_Rotation == rot.n >= 2 /\ rot.late => Distinct(rot.ids)

\* A full round over two rows that had been handed out before.
C2_Witness ==
    /\ rot.n = 2
    /\ Len(rot.ids) = 2
    /\ rot.late
    /\ rot.since # NULL

AllDone == \A p \in Procs : pc[p] = "done"

\* The table the two callers started from: nothing but last_use changes.
Before == {[r EXCEPT !.last_use = NULL] : r \in rows}

OutIds(p) == [i \in 1..Len(out[p]) |-> out[p][i].id]

\* The ids two calls of find_socks5(limit=1) return when one runs after the
\* other on table t.
SerialIds(t) ==
    UNION { UNION { { << [i \in 1..Len(a) |-> a[i].id],
                         [i \in 1..Len(b) |-> b[i].id] >>
                        : b \in Selections(
                              Commit(t, Stamped(a, [i \in 1..Len(a) |-> tm])),
                              NoFilter, 1) }
                    : tm \in Times }
            : a \in Selections(t, NoFilter, 1) }

\* C3: two concurrent find_socks5(limit=1, update_usage=True) calls return
\* what some serial order of the two returns; with two eligible rows they
\* never return the same row.
C3_Serializable ==
    AllDone =>
        \/ <<OutIds(1), OutIds(2)>> \in SerialIds(Before)
        \/ <<OutIds(2), OutIds(1)>> \in SerialIds(Before)
\* A filter argument that is given: not None.
GivenStr(v) == v # NullStr

GivenNum(v) == v # NULL

EqualityFiltersHold(r, f) ==
    /\ (GivenStr(f.country) => r.country = f.country)
    /\ (GivenStr(f.country_code) => r.country_code = f.country_code)
    /\ (GivenStr(f.city) => r.city = f.city)

RangeFiltersHold(r, f) ==
    /\ (GivenNum(f.min_mbps_down) =>
            r.bandwidth # NULL /\ r.bandwidth >= f.min_mbps_down)
    /\ (GivenNum(f.max_connect_time) =>
            r.connect_time # NULL /\ r.connect_time <= f.max_connect_time)

\* C4: every record find_socks5 returns satisfies every filter that was
\* given, the values 0 and "" included, and every record list_socks5
\* returns satisfies every equality filter that was given.
C4_FiltersHold ==
    /\ call.op = "find" =>
          \A r \in Returned :
              EqualityFiltersHold(r, call.filt) /\ RangeFiltersHold(r, call.filt)
    /\ call.op = "list" =>
          \A r \in Returned : EqualityFiltersHold(r, call.filt)

\* Row c is to be preferred to row r: c was used earlier (never used comes
\* before any use), or at the same time and checked later.
UsedEarlier(c, r) ==
    \/ c.last_use = NULL /\ r.last_use # NULL
    \/ c.last_use # NULL /\ r.last_use # NULL /\ c.last_use < r.last_use

CheckedLater(c, r) ==
    \/ c.last_check # NULL /\ r.last_check = NULL
    \/ c.last_check # NULL /\ r.last_check # NULL
         /\ c.last_check > r.last_check

Preferred(c, r) ==
    \/ UsedEarlier(c, r)
    \/ c.last_use = r.last_use /\ CheckedLater(c, r)

\* The row of table t with the id of r.
RowOf(t, r) == CHOOSE x \in t : x.id = r.id

\* C5: find_socks5 returns min(limit, number of candidates) different
\* candidates, in the order of last_use ascending (NULL first) and
\* last_check descending, and no candidate it leaves out is to be preferred
\* to one it returns.
C5_SelectionOrder ==
    [][IsCall /\ call'.op = "find" =>
        LET cands == Candidates(rows, call'.filt)
            res   == call'.result
            ids   == {res[i].id : i \in 1..Len(res)}
        IN  /\ Len(res) = Min(call'.limit, Cardinality(cands))
            /\ Cardinality(ids) = Len(res)
            /\ ids \subseteq RowIds(cands)
            /\ \A i, j \in 1..Len(res) :
                  i < j => ~Preferred(RowOf(rows, res[j]), RowOf(rows, res[i]))
            /\ \A c \in cands :
                  c.id \notin ids =>
                      \A i \in 1..Len(res) :
                          ~Preferred(c, RowOf(rows, res[i]))
      ]_vars

\* Of two candidates used at the same time, the one checked later was
\* returned and the other was left out.
C5_Witness ==
    /\ call.op = "find"
    /\ ~call.update_usage
    /\ Len(call.result) = 1
    /\ \E c \in Candidates(rows, call.filt) :
          /\ c.id # call.result[1].id
          /\ c.last_use = call.result[1].last_use
          /\ CheckedLater(call.result[1], c)

\* C6: after find_socks5 with update_usage=True returned records, the
\* last_use of each of them in the table is the time of the call, and the
\* record handed to the caller is the row as it now is in the table.
C6_UsageStamp ==
    [][IsCall /\ call'.op = "find" /\ call'.update_usage
           /\ call'.result # <<>> =>
        \A i \in 1..Len(call'.result) :
            LET r == call'.result[i]
            IN  /\ r \in rows'
                /\ r.last_use # NULL
                /\ clock <= r.last_use /\ r.last_use <= clock'
      ]_vars

\* Two records were returned with the time of the call as last_use, after
\* time had passed.
C6_Witness ==
    /\ call.op = "find"
    /\ call.update_usage
    /\ Len(call.result) = 2
    /\ call.result[1].last_use = clock
    /\ clock > 0
    /\ call.result[1] \in rows

\* C7: find_socks5 with update_usage=False changes no row; and when one
\* row matches, the call that repeats it with the same filters returns the
\* same record.
C7_NoStamp ==
    [][IsCall /\ call'.op = "find" /\ ~call'.update_usage =>
        /\ rows' = rows
        /\ (/\ call.op = "find" /\ ~call.update_usage
            /\ call'.filt = call.filt
            /\ call.limit >= 1 /\ call'.limit >= 1
            /\ Cardinality(Candidates(rows, call.filt)) = 1)
           => call'.result = call.result /\ Len(call'.result) = 1
      ]_vars

\* The sole match among two rows was returned and was never stamped.
C7_Witness ==
    /\ call.op = "find"
    /\ ~call.update_usage
    /\ ncalls >= 3
    /\ Cardinality(Candidates(rows, call.filt)) = 1
    /\ Len(call.result) = 1
    /\ call.result[1].last_use = NULL
    /\ Cardinality(rows) = 2

\* C8: remove_socks5 of an id that is not in the table returns True and
\* leaves the table as it is; so the second of two remove_socks5(id)
\* changes nothing.
C8_RemoveIdempotent ==
    [][IsCall /\ call'.op = "remove" =>
        /\ call'.id \notin RowIds(rows) => rows' = rows /\ call'.ok
        /\ (call.op = "remove" /\ call.id = call'.id) =>
              rows' = rows /\ call'.ok
      ]_vars

\* An id that never was in the table was removed, and a row is there.
C8_Witness ==
    /\ call.op = "remove"
    /\ call.ok
    /\ call.id \notin assigned
    /\ rows # {}

UniqueIds(t) == \A a, b \in t : a.id = b.id => a = b

\* The number of rows a call asked to insert.
Inserted(c) == IF c.op = "add" THEN 1 ELSE Len(c.batch)

\* C9: the ids of the rows in the table are pairwise distinct, and the rows
\* of a successful add_socks5 or bulk_add_socks5 get ids that differ from
\* each other and from the ids in the table.
C9_UniqueIds ==
    [][/\ UniqueIds(rows')
       /\ (IsCall /\ call'.op \in {"add", "bulk_add"} /\ call'.ok) =>
             /\ rows \subseteq rows'
             /\ RowIds(rows' \ rows) \cap RowIds(rows) = {}
             /\ Cardinality(RowIds(rows' \ rows)) = Inserted(call')
             /\ Cardinality(rows' \ rows) = Inserted(call')
      ]_vars

\* A row was added to a table from which a row had been removed.
C9_Witness ==
    /\ call.op = "add"
    /\ call.ok
    /\ RowIds(rows) = {1}
    /\ assigned = {1, 2}

\* The id of the row add_socks5 inserted.
NewIds == RowIds(rows' \ rows)

\* C10 as stated: the id add_socks5 assigns is greater than every id that
\* was ever assigned before, also to rows that were removed since.
C10_NeverReused_Original ==
    [][IsCall /\ call'.op = "add" =>
        \A n \in NewIds : \A i \in assigned : n > i]_vars

\* C10, amended: the id add_socks5 assigns is greater than the id of every
\* row in the table at that time.
C10_AboveAllPresent ==
    [][IsCall /\ call'.op = "add" =>
        /\ NewIds # {}
        /\ \A n \in NewIds : \A i \in RowIds(rows) : n > i]_vars

\* A row was added to a table that held a row, and got the greater id.
C10_Witness ==
    /\ call.op = "add"
    /\ call.id = 2
    /\ RowIds(rows) = {1, 2}

\* A row of the table before the step and the row with its id after it.
Kept == {<<r, s>> \in rows \X rows' : r.id = s.id}

SameBut(r, s, cols) ==
    \A c \in (DOMAIN r) \ cols : r[c] = s[c]

\* C12: set_operational(id, v) of an id in the table sets operational to v
\* and last_check to the time of the call on the row of that id and changes
\* nothing else; of an id not in the table it changes nothing; it raises
\* nothing.
C12_SetOperationalFrame ==
    [][IsCall /\ call'.op = "set_operational" =>
        /\ call'.ok
        /\ RowIds(rows') = RowIds(rows)
        /\ Cardinality(rows') = Cardinality(rows)
        /\ call'.id \notin RowIds(rows) => rows' = rows
        /\ \A p \in Kept :
              IF p[1].id = call'.id
              THEN /\ p[2].operational = call'.args[1]
                   /\ p[2].last_check = clock
                   /\ SameBut(p[1], p[2], {"operational", "last_check"})
              ELSE p[2] = p[1]
        /\ clock' = clock
      ]_vars

\* One of two checked, operational records was set to not operational
\* later on; the other one is as it was.
C12_Witness ==
    /\ call.op = "set_operational"
    /\ call.args = <<FALSE>>
    /\ clock > 0
    /\ \E r \in rows :
          r.id = call.id /\ ~r.operational /\ r.last_check = clock
    /\ \E r \in rows :
          r.id # call.id /\ r.operational /\ r.last_check = 0

\* C13: set_connect_time changes the connect_time and set_approx_bandwidth
\* the bandwidth of the row of the id and nothing else; neither changes
\* the table when the id is not in it.
C13_MeasurementFrame ==
    [][IsCall /\ call'.op \in {"set_connect_time", "set_approx_bandwidth"} =>
        LET col == IF call'.op = "set_connect_time"
                   THEN "connect_time" ELSE "bandwidth"
        IN  /\ RowIds(rows') = RowIds(rows)
            /\ Cardinality(rows') = Cardinality(rows)
            /\ call'.id \notin RowIds(rows) => rows' = rows
            /\ \A p \in Kept :
                  IF p[1].id = call'.id
                  THEN /\ p[2][col] = call'.args[1]
                       /\ SameBut(p[1], p[2], {col})
                  ELSE p[2] = p[1]
      ]_vars

\* The connect time of a record that is operational, was checked and was
\* handed out was stored; last_check and last_use are as they were.
C13_Witness ==
    /\ call.op = "set_connect_time"
    /\ \E r \in rows :
          /\ r.id = call.id
          /\ r.connect_time = call.args[1]
          /\ r.operational
          /\ r.last_check # NULL
          /\ r.last_use # NULL

\* The last_use of the row after the step is the time of the step.
StampedNow(s) == clock <= s.last_use /\ s.last_use <= clock'

\* C14 as stated: in every step the last_use of a record stays as it is or
\* becomes the current time, which is not earlier than the value it had,
\* and a last_use that is not NULL never becomes NULL.
C14_LastUseAdvances_Original ==
    [][\A p \in Kept :
          \/ p[2].last_use = p[1].last_use
          \/ /\ StampedNow(p[2])
             /\ p[2].last_use >= p[1].last_use
      ]_vars

\* C14, amended: in every step the last_use of a record stays as it is or
\* becomes the current time, and a last_use that is not NULL never becomes
\* NULL; the new value is not earlier than the old one when the old one
\* was not later than the time of the call.
C14_LastUseStamped ==
    [][\A p \in Kept :
          \/ p[2].last_use = p[1].last_use
          \/ /\ IsCall /\ call'.op = "find" /\ call'.update_usage
             /\ StampedNow(p[2])
             /\ (p[1].last_use <= clock => p[2].last_use >= p[1].last_use)
      ]_vars

\* A record that had been handed out at time 0 was handed out again at
\* time 1.
C14_Witness ==
    /\ call.op = "find"
    /\ rot.n = 2
    /\ Len(rot.ids) = 1
    /\ rot.since = 0
    /\ call.result[1].last_use = 1

\* C15: when a statement of find_socks5, list_socks5 or view_socks5 raises
\* an SQLAlchemyError, at the query or at the commit of the stamps, the
\* call returns the empty list (view_socks5: None).
C15_ReadsDegradeToEmpty ==
    (call.error /\ call.op \in {"find", "list", "view"}) =>
        call.result = <<>>

\* C16: the record view_socks5(id) returns right after add_socks5 created
\* it with that id has the host, port, country, country_code, operational,
\* city, username, password and description that were passed (None where
\* none was passed) and no last_use, last_check, bandwidth, connect_time.
C16_AddViewRoundTrip ==
    [][(/\ IsCall
        /\ call.op = "add" /\ call.ok
        /\ call'.op = "view" /\ call'.id = call.id) =>
          /\ Len(call'.result) = 1
          /\ LET r == call'.result[1]
                 a == call.args[1]
             IN  /\ r.id = call.id
                 /\ \A c \in DOMAIN a : r[c] = a[c]
                 /\ r.last_use = NULL
                 /\ r.last_check = NULL
                 /\ r.bandwidth = NULL
                 /\ r.connect_time = NULL
      ]_vars

\* The record added with username, password and description and without
\* city was viewed right after the add.
C16_Witness ==
    /\ ncalls = 2
    /\ call.op = "view"
    /\ Len(call.result) = 1
    /\ call.result[1].username = "u"
    /\ call.result[1].city = NullStr
    /\ call.result[1].operational

\* The dictionary d of a batch is a row of table t.
Present(d, t) ==
    \E r \in t :
        /\ d.id # NULL => r.id = d.id
        /\ r.last_use = d.last_use
        /\ \A c \in DOMAIN d.args : r[c] = d.args[c]

\* A dictionary of the batch cannot be inserted: it has the id of a row of
\* the table or of another dictionary of the batch, or it has no host.
NotInsertable(ds, t) ==
    \/ \E i \in 1..Len(ds) : ds[i].id # NULL /\ ds[i].id \in RowIds(t)
    \/ \E i, j \in 1..Len(ds) :
          i # j /\ ds[i].id # NULL /\ ds[i].id = ds[j].id
    \/ \E i \in 1..Len(ds) : ds[i].args.host = NullStr

\* C17: bulk_add_socks5 returns False and leaves the table as it was when a
\* dictionary of the batch cannot be inserted; whenever it returns False
\* the table is as it was; when it returns True the table has, beside the
\* rows it had, one row for every dictionary of the batch.
C17_BulkAllOrNothing ==
    [][IsCall /\ call'.op = "bulk_add" =>
        /\ NotInsertable(call'.batch, rows) => ~call'.ok
        /\ ~call'.ok => rows' = rows
        /\ call'.ok =>
              /\ rows \subseteq rows'
              /\ Cardinality(rows' \ rows) = Len(call'.batch)
              /\ \A i \in 1..Len(call'.batch) :
                    Present(call'.batch[i], rows' \ rows)
      ]_vars

\* A batch of two dictionaries with id 2 failed on the second; the table
\* holds a row from before and no row with id 2.
C17_Witness ==
    /\ call.op = "bulk_add"
    /\ ~call.ok
    /\ Len(call.batch) = 2
    /\ call.batch[1].id = 2
    /\ call.batch[2].id = 2
    /\ RowIds(rows) = {1}

\* The record returned by the last call is the one with id i.
ReturnedId(i) ==
    call.op = "find" /\ call.result # <<>> /\ call.result[1].id = i

\* Between two consecutive selections of a record among the last calls,
\* every other operational record was selected exactly once.
OthersOnceBetween ==
    LET w == rot.ids
    IN  \A i, j \in 1..Len(w) :
          (/\ i < j
           /\ w[i] = w[j]
           /\ \A k \in (i + 1)..(j - 1) : w[k] # w[i]) =>
             /\ j - i = rot.n
             /\ {w[k] : k \in (i + 1)..(j - 1)}
                    = RowIds(Operational(rows)) \ {w[i]}

\* C18 as stated, its second half: while find_socks5(limit=1,
\* update_usage=True) is called again and again at advancing times on a
\* fixed table, between two consecutive selections of a record every other
\* operational record is selected exactly once.
C18_OthersOnce_Original == OthersOnceBetween

\* C18, amended: every operational record is returned again and again; and
\* when no operational record has a last_use at or after the time of the
\* first call, every other operational record is selected exactly once
\* between two consecutive selections of a record.
C18_RoundRobin ==
    /\ \A i \in 1..MaxRot :
          []<>(i \in RowIds(Operational(rows)) => ReturnedId(i))
    /\ [](rot.late => OthersOnceBetween)

\* Three operational records, never handed out or handed out before the
\* first call: one of them was returned for the second time, after the two
\* others.
C18_Witness ==
    /\ rot.n = 3
    /\ rot.late
    /\ Len(rot.ids) = 4
    /\ rot.ids[1] = rot.ids[4]
    /\ ReturnedId(rot.ids[4])

\* The ids of the records the call of this step returned.
ReturnedIds == {call'.result[i].id : i \in 1..Len(call'.result)}

\* C19: find_socks5, with update_usage=True too, adds no row, removes no
\* row and changes no column but last_use, and that only of the records it
\* returns.
C19_FindFrame ==
    [][IsCall /\ call'.op = "find" =>
        /\ RowIds(rows') = RowIds(rows)
        /\ Cardinality(rows') = Cardinality(rows)
        /\ \A p \in Kept :
              /\ SameBut(p[1], p[2], {"last_use"})
              /\ p[1].id \notin ReturnedIds => p[2] = p[1]
      ]_vars

\* One of two candidates was returned and stamped after time had passed;
\* the other one, checked and never handed out, is still not stamped.
C19_Witness ==
    /\ call.op = "find"
    /\ call.update_usage
    /\ Len(call.result) = 1
    /\ call.result[1].last_use = clock
    /\ clock > 0
    /\ \E r \in Candidates(rows, call.filt) :
          r.id # call.result[1].id /\ r.last_use = NULL /\ r.last_check # NULL

\* C20: a record find_socks5 returns for a min_mbps_down that is not zero
\* had a bandwidth, at least min_mbps_down, before the call, and one it
\* returns for a max_connect_time that is not zero had a connect time, at
\* most max_connect_time; and the bandwidth of a record in the table is
\* changed by set_approx_bandwidth only, its connect time by
\* set_connect_time only.
C20_NullNeverEligible ==
    [][/\ (IsCall /\ call'.op = "find") =>
            \A i \in 1..Len(call'.result) :
                LET r == RowOf(rows, call'.result[i])
                    f == call'.filt
                IN  /\ (f.min_mbps_down # NULL /\ f.min_mbps_down # 0) =>
                          r.bandwidth # NULL
                              /\ r.bandwidth >= f.min_mbps_down
                    /\ (f.max_connect_time # NULL /\ f.max_connect_time # 0) =>
                          r.connect_time # NULL
                              /\ r.connect_time <= f.max_connect_time
       /\ \A p \in Kept :
            /\ p[1].bandwidth # p[2].bandwidth =>
                  /\ call'.op = "set_approx_bandwidth"
                  /\ call'.id = p[1].id
                  /\ p[2].bandwidth = call'.args[1]
            /\ p[1].connect_time # p[2].connect_time =>
                  /\ call'.op = "set_connect_time"
                  /\ call'.id = p[1].id
                  /\ p[2].connect_time = call'.args[1]
      ]_vars

\* Of two operational records the one whose connect time was stored was
\* returned for a max_connect_time; the one without connect time was not,
\* though the limit left room for it.
C20_Witness ==
    /\ call.op = "find"
    /\ call.filt = [NoFilter EXCEPT !.max_connect_time = 2]
    /\ call.limit = 2
    /\ Len(call.result) = 1
    /\ call.result[1].connect_time = 2
    /\ \E r \in Operational(rows) : r.connect_time = NULL
====
